---- MODULE Spec2Model ----
(***************************************************************************)
(* Duka-OS inventory ledger and sale-settlement engine.                    *)
(*                                                                         *)
(* InventoryService.processSale and InventoryService.receiveStock run as   *)
(* Prisma interactive transactions against one SQLite database in WAL      *)
(* mode.  Every awaited statement of a call is one step, so calls issued   *)
(* from two tills interleave between statements.  A transaction works on   *)
(* a private copy of the database taken at its first statement; the        *)
(* database allows one writer at a time, refuses the write of a            *)
(* transaction whose snapshot is stale, and publishes a transaction's      *)
(* writes at commit.  Quantities are integers (whole units).               *)
(***************************************************************************)
EXTENDS Integers, Sequences, FiniteSets, TLC

VARIABLES
    db,       \* committed database: stockQty per product, StockEvent rows, Sale rows
    lock,     \* the till whose transaction holds the database write lock, or NoTill
    pc,       \* per till: the statement its call executes next
    op,       \* per till: "sale", "receive" or "none"
    items,    \* per till: the call's items (processSale) or entries (receiveStock)
    pm,       \* per till: the paymentMethod of the call
    idx,      \* per till: 1-based position in items of the line being processed
    total,    \* per till: the running sale total
    product,  \* per till: the row findUnique returned for the current line
    work,     \* per till: the transaction's view of the database, or NoTx
    snap,     \* per till: the committed database the transaction first read, or NoTx
    mark,     \* per till: the transaction's view when the current line started
    result,   \* per till: outcome of the last finished call
    used,     \* number of lines and catalog operations submitted so far
    tills,    \* the tills that issue calls
    receipt,  \* per till: outcome of printing the receipt of its last sale
    pos       \* the POS screen: cart, M-Pesa checkout, last payment status

vars == <<db, lock, pc, op, items, pm, idx, total, product, work, snap, mark,
          result, used, tills, receipt, pos>>

----------------------------------------------------------------------------
(* Bounds of the model *)

\* lines (sale items and receive entries) and catalog operations submitted
\* over a run, all calls together
MaxLines == 2

\* quantity of one product in the POS cart
MaxQty == 2

\* STK pushes sent from the POS screen
MaxPushes == 1

Tills == {"till1", "till2"}
NoTill == "none"

\* a call is issued from the first till that is free
Before(u, t) == u = "till1" /\ t = "till2"
NoTx == [none |-> TRUE]
NoProduct == [none |-> TRUE]
NoResponse == [none |-> TRUE]

\* the POS screen after mount: empty cart, no checkoutRequestId (0 for null),
\* nothing charged, not paying
NoPos == [cart |-> <<>>, checkoutId |-> 0, pushed |-> 0, pushes |-> 0,
          phase |-> "idle", status |-> "none", response |-> NoResponse]

----------------------------------------------------------------------------
(* Catalog: the two products of the regression harness, and three more rows *)
(* the Product table allows: a second child of the sack, a child of the     *)
(* sack without conversionFactor, and a child of the kilo.                  *)

Sack == 1
Kilo == 2
SackFactor == 50
SackPrice == 5000
KiloPrice == 100

Half == 3
Loose == 4
Scoop == 5
HalfFactor == 100
ScoopFactor == 4

HarnessProducts == {Sack, Kilo}
Products == {Sack, Kilo, Half, Loose, Scoop}
UnknownIds == {9}

\* parentProductId of a product row (0 for NULL)
ParentOf(p) ==
    IF p \in {Kilo, Half, Loose} THEN Sack
    ELSE IF p = Scoop THEN Kilo
    ELSE 0

\* conversionFactor of a product row (0 for NULL)
ConversionFactor(p) ==
    IF p = Kilo THEN SackFactor
    ELSE IF p = Half THEN HalfFactor
    ELSE IF p = Scoop THEN ScoopFactor
    ELSE 0

\* price of a product row as the harness creates it
CatalogPrice(p) == IF p = Kilo THEN KiloPrice ELSE SackPrice

PaymentMethods == {"CASH", "MPESA"}

Line(p, q, u) == [productId |-> p, quantity |-> q, unitPrice |-> u]
Entry(p, q) == [productId |-> p, quantity |-> q, finite |-> TRUE]

\* a receive entry whose quantity is NaN or Infinity: not finite, and not <= 0
NonFinite(p) == [productId |-> p, quantity |-> 1, finite |-> FALSE]

\* the sale lines and receive entries a caller submits
SaleLines == {Line(Kilo, 60, 100), Line(Kilo, 30, 90), Line(Kilo, -1, 100),
              Line(Sack, 1, 5000), Line(9, 30, 100)}
RecvEntries == {Entry(Sack, 2), Entry(Kilo, 10), Entry(Kilo, 0), Entry(9, 2),
                Entry(Sack, -3), NonFinite(Kilo)}

SeqsUpTo(S, n) == UNION {[1..k -> S] : k \in 0..n}

----------------------------------------------------------------------------
(* Storage: rows and statements of the Prisma client *)

EmptyDb == [stock  |-> [p \in Products |-> 0],
            price  |-> [p \in Products |-> CatalogPrice(p)],
            events |-> <<>>,
            sales  |-> <<>>,
            custom |-> <<>>]

StockEvent(p, d, r) == [productId |-> p, delta |-> d, reason |-> r]

\* tx.product.findUnique({ where: { id }, include: { parent: true } })
FindUnique(d, id) ==
    IF id \in Products
    THEN [id |-> id, stockQty |-> d.stock[id],
          conversionFactor |-> ConversionFactor(id), parent |-> ParentOf(id)]
    ELSE NoProduct

\* tx.product.update({ where: { id }, data: { stockQty: { increment: by } } })
ProductUpdate(d, id, by) ==
    [d EXCEPT !.stock = [@ EXCEPT ![id] = @ + by]]

\* faulty variant: the event row is not written
StockEventCreateLost(d, p, delta, reason) == d

\* tx.stockEvent.create({ data: { productId, delta, reason } })
StockEventCreate(d, p, delta, reason) ==
    [d EXCEPT !.events = Append(@, StockEvent(p, delta, reason))]

\* faulty variant: priceAtSale is taken from the product's catalog price
SaleCreateCatalogPrice(d, tot, method, its) ==
    [d EXCEPT !.sales = Append(@,
        [total |-> tot, paymentMethod |-> method,
         items |-> [k \in 1..Len(its) |->
                      [productId |-> its[k].productId,
                       quantity |-> its[k].quantity,
                       priceAtSale |-> d.price[its[k].productId]]]])]

\* tx.sale.create({ data: { total, paymentMethod, items: { create: ... } } })
SaleCreate(d, tot, method, its) ==
    [d EXCEPT !.sales = Append(@,
        [total |-> tot, paymentMethod |-> method,
         items |-> [k \in 1..Len(its) |->
                      [productId |-> its[k].productId,
                       quantity |-> its[k].quantity,
                       priceAtSale |-> its[k].unitPrice]]])]

\* faulty variant: Math.floor in place of Math.ceil
CeilFloor(a, b) == a \div b

\* Math.ceil(a / b) for b > 0
Ceil(a, b) == -((-a) \div b)

----------------------------------------------------------------------------
(* Transactions *)

InFlight == {"find", "brkSrcUpd", "brkSrcEv", "brkDstUpd", "brkDstEv",
             "saleUpd", "saleEv", "saleCreate", "rcvNext", "rcvUpd", "rcvEv",
             "commit"}
Finished == {"idle", "done", "failed"}

\* faulty variant: every statement sees the database as the call first read it
ViewAtStart(t) == IF snap[t] = NoTx THEN db ELSE snap[t]

\* The database as the transaction of till t sees it: its own copy once it
\* has executed a statement, the committed database before that.
View(t) == IF work[t] = NoTx THEN db ELSE work[t]

\* faulty variant: a stale snapshot does not stop the write
CanWriteStale(t) == lock \in {NoTill, t}

\* The write lock is free for t's transaction: no other transaction holds it,
\* and nothing was committed since t's transaction took its snapshot.
CanWrite(t) ==
    \/ lock = t
    \/ lock = NoTill /\ (snap[t] = NoTx \/ snap[t] = db)

\* A statement of t's transaction that only reads.
TxRead(t) ==
    /\ work' = [work EXCEPT ![t] = View(t)]
    /\ snap' = [snap EXCEPT ![t] = IF snap[t] = NoTx THEN db ELSE snap[t]]
    /\ UNCHANGED <<db, lock>>

\* faulty variant: the statement goes through the shared client and autocommits
TxWriteThrough(t, w) ==
    /\ CanWrite(t)
    /\ work' = [work EXCEPT ![t] = w]
    /\ snap' = [snap EXCEPT ![t] = IF snap[t] = NoTx THEN db ELSE snap[t]]
    /\ lock' = t
    /\ db' = w

\* A statement of t's transaction that writes, leaving its view w.
TxWrite(t, w) ==
    /\ CanWrite(t)
    /\ work' = [work EXCEPT ![t] = w]
    /\ snap' = [snap EXCEPT ![t] = IF snap[t] = NoTx THEN db ELSE snap[t]]
    /\ lock' = t
    /\ UNCHANGED db

\* faulty variant: the writes made before the failure stay
RolledBackPartial(t) == View(t)

\* The committed database after t's transaction rolled back.
RolledBack(t) == db

\* The callback of t's transaction threw: roll back, surface the error.
Rollback(t, err) ==
    /\ db' = RolledBack(t)
    /\ lock' = IF lock = t THEN NoTill ELSE lock
    /\ pc' = [pc EXCEPT ![t] = "failed"]
    /\ result' = [result EXCEPT ![t] = err]
    /\ work' = [work EXCEPT ![t] = NoTx]
    /\ UNCHANGED <<op, items, pm, idx, total, product, snap, mark, used, tills, receipt, pos>>

----------------------------------------------------------------------------
Init ==
    /\ db = EmptyDb
    /\ lock = NoTill
    /\ pc = [t \in Tills |-> "idle"]
    /\ op = [t \in Tills |-> "none"]
    /\ items = [t \in Tills |-> <<>>]
    /\ pm = [t \in Tills |-> "CASH"]
    /\ idx = [t \in Tills |-> 0]
    /\ total = [t \in Tills |-> 0]
    /\ product = [t \in Tills |-> NoProduct]
    /\ work = [t \in Tills |-> NoTx]
    /\ snap = [t \in Tills |-> NoTx]
    /\ mark = [t \in Tills |-> NoTx]
    /\ result = [t \in Tills |-> "none"]
    /\ used = 0
    /\ tills = Tills
    /\ receipt = [t \in Tills |-> "none"]
    /\ pos = NoPos

\* A till starts a call: its previous call is over.
StartCall(t, kind, its, method) ==
    /\ pc[t] \in Finished
    /\ \A u \in tills : Before(u, t) => pc[u] \in InFlight
    /\ used + Len(its) <= MaxLines
    /\ used' = used + Len(its)
    /\ op' = [op EXCEPT ![t] = kind]
    /\ items' = [items EXCEPT ![t] = its]
    /\ pm' = [pm EXCEPT ![t] = method]
    /\ total' = [total EXCEPT ![t] = 0]
    /\ product' = [product EXCEPT ![t] = NoProduct]
    /\ work' = [work EXCEPT ![t] = NoTx]
    /\ snap' = [snap EXCEPT ![t] = NoTx]
    /\ mark' = [mark EXCEPT ![t] = NoTx]
    /\ receipt' = [receipt EXCEPT ![t] = "none"]
    /\ UNCHANGED <<db, lock, tills>>

\* faulty variant: the guard is missing
RejectsNothing(its) == FALSE

\* processSale: "if (!items || items.length === 0) throw"
RejectsEmpty(its) == Len(its) = 0

\* processSale and the sale:create handler open the transaction once per call:
\* there is no loop around prisma.$transaction and no catch that calls again
Attempts(t) == 1

\* processSale(items, paymentMethod), up to the opening of the transaction
SaleCall(t, its, method) ==
    /\ StartCall(t, "sale", its, method)
    /\ IF RejectsEmpty(its)
       THEN /\ pc' = [pc EXCEPT ![t] = "failed"]
            /\ result' = [result EXCEPT ![t] = "Sale requires at least one item"]
       ELSE /\ pc' = [pc EXCEPT ![t] = "find"]
            /\ result' = [result EXCEPT ![t] = "none"]
    /\ idx' = [idx EXCEPT ![t] = 1]

\* processSale called with lines on the harness products
ProcessSale(t) ==
    \E its \in SeqsUpTo(SaleLines, MaxLines - used), method \in PaymentMethods :
        SaleCall(t, its, method) /\ UNCHANGED pos

\* faulty variant: stock equal to the quantity also breaks
ShouldBreakOrEqual(prod, saleQty) ==
    /\ prod.stockQty <= saleQty
    /\ prod.parent # 0
    /\ prod.conversionFactor # 0
    /\ prod.conversionFactor > 0

\* processSale: the bulk-break condition of a line
ShouldBreak(prod, saleQty) ==
    /\ prod.stockQty < saleQty
    /\ prod.parent # 0
    /\ prod.conversionFactor # 0
    /\ prod.conversionFactor > 0

\* faulty variant: one unit more than the whole units of the shortfall
ParentsToBreakOneMore(prod, saleQty) ==
    ((saleQty - prod.stockQty) \div prod.conversionFactor) + 1

\* processSale: parentsToBreak of a breaking line
ParentsToBreak(prod, saleQty) ==
    Ceil(saleQty - prod.stockQty, prod.conversionFactor)

\* faulty variant: a line that stock cannot cover and no parent can refill is rejected
SaleFindBlocking(t) ==
    /\ pc[t] = "find"
    /\ LET item == items[t][idx[t]]
           prod == FindUnique(View(t), item.productId)
       IN IF prod = NoProduct
          THEN Rollback(t, "Product not found")
          ELSE IF prod.stockQty < item.quantity /\ ~ShouldBreak(prod, item.quantity)
          THEN Rollback(t, "Insufficient stock")
          ELSE /\ TxRead(t)
               /\ product' = [product EXCEPT ![t] = prod]
               /\ mark' = [mark EXCEPT ![t] = View(t)]
               /\ total' = [total EXCEPT ![t] = @ + item.unitPrice * item.quantity]
               /\ pc' = [pc EXCEPT ![t] =
                            IF ShouldBreak(prod, item.quantity)
                            THEN "brkSrcUpd" ELSE "saleUpd"]
               /\ UNCHANGED <<op, items, pm, idx, result, used, tills, receipt, pos>>

\* processSale: findUnique of the current line, the NotFound throw, the total
SaleFind(t) ==
    /\ pc[t] = "find"
    /\ LET item == items[t][idx[t]]
           prod == FindUnique(View(t), item.productId)
       IN IF prod = NoProduct
          THEN Rollback(t, "Product not found")
          ELSE /\ TxRead(t)
               /\ product' = [product EXCEPT ![t] = prod]
               /\ mark' = [mark EXCEPT ![t] = View(t)]
               /\ total' = [total EXCEPT ![t] = @ + item.unitPrice * item.quantity]
               /\ pc' = [pc EXCEPT ![t] =
                            IF ShouldBreak(prod, item.quantity)
                            THEN "brkSrcUpd" ELSE "saleUpd"]
               /\ UNCHANGED <<op, items, pm, idx, result, used, tills, receipt, pos>>

\* One awaited write statement of t's call, from statement `from` to `to`.
WriteStep(t, from, to, w) ==
    /\ pc[t] = from
    /\ TxWrite(t, w)
    /\ pc' = [pc EXCEPT ![t] = to]
    /\ UNCHANGED <<op, items, pm, idx, total, product, mark, result, used, tills, receipt, pos>>

\* faulty variant: the parent is set to its stock at the start of the call
\* less the units broken by this line
BreakSourceUpdateFromStart(t) ==
    /\ pc[t] = "brkSrcUpd"
    /\ LET n == ParentsToBreak(product[t], items[t][idx[t]].quantity)
           start == IF snap[t] = NoTx THEN db ELSE snap[t]
       IN WriteStep(t, "brkSrcUpd", "brkSrcEv",
                    [View(t) EXCEPT !.stock[product[t].parent] =
                                        start.stock[product[t].parent] - n])

\* processSale: parent stockQty increment by parentDelta
BreakSourceUpdate(t) ==
    /\ pc[t] = "brkSrcUpd"
    /\ LET n == ParentsToBreak(product[t], items[t][idx[t]].quantity)
       IN WriteStep(t, "brkSrcUpd", "brkSrcEv",
                    ProductUpdate(View(t), product[t].parent, -n))

\* faulty variant: a parent left below zero is refilled from its own parent
BreakSourceEventCascading(t) ==
    /\ pc[t] = "brkSrcEv"
    /\ LET n == ParentsToBreak(product[t], items[t][idx[t]].quantity)
           w == StockEventCreate(View(t), product[t].parent, -n,
                                 "BULK_BREAK_SOURCE")
           parent == product[t].parent
           grand == ParentOf(parent)
       IN WriteStep(t, "brkSrcEv", "brkDstUpd",
                    IF grand # 0 /\ w.stock[parent] < 0
                    THEN StockEventCreate(ProductUpdate(w, grand, -1), grand, -1,
                                          "BULK_BREAK_SOURCE")
                    ELSE w)

\* processSale: BULK_BREAK_SOURCE event on the parent
BreakSourceEvent(t) ==
    /\ pc[t] = "brkSrcEv"
    /\ LET n == ParentsToBreak(product[t], items[t][idx[t]].quantity)
       IN WriteStep(t, "brkSrcEv", "brkDstUpd",
                    StockEventCreate(View(t), product[t].parent, -n,
                                     "BULK_BREAK_SOURCE"))

\* processSale: child stockQty increment by childDeltaFromBulk
BreakDestUpdate(t) ==
    /\ pc[t] = "brkDstUpd"
    /\ LET n == ParentsToBreak(product[t], items[t][idx[t]].quantity)
       IN WriteStep(t, "brkDstUpd", "brkDstEv",
                    ProductUpdate(View(t), product[t].id,
                                  n * product[t].conversionFactor))

\* faulty variant: the BULK_BREAK_DEST event is not written
BreakDestEventMissing(t) ==
    /\ pc[t] = "brkDstEv"
    /\ pc' = [pc EXCEPT ![t] = "saleUpd"]
    /\ UNCHANGED <<db, lock, op, items, pm, idx, total, product, work, snap, mark,
                   result, used, tills, receipt, pos>>

\* processSale: BULK_BREAK_DEST event on the child
BreakDestEvent(t) ==
    /\ pc[t] = "brkDstEv"
    /\ LET n == ParentsToBreak(product[t], items[t][idx[t]].quantity)
       IN WriteStep(t, "brkDstEv", "saleUpd",
                    StockEventCreate(View(t), product[t].id,
                                     n * product[t].conversionFactor,
                                     "BULK_BREAK_DEST"))

\* processSale: the stock delta of the sale decrement of a line
SaleDelta(saleQty) == -saleQty

\* processSale: stockQty decrement by saleQty
SaleUpdate(t) ==
    /\ pc[t] = "saleUpd"
    /\ WriteStep(t, "saleUpd", "saleEv",
                 ProductUpdate(View(t), product[t].id,
                               SaleDelta(items[t][idx[t]].quantity)))

\* processSale: SALE event, then the next line or the Sale row
SaleEvent(t) ==
    /\ pc[t] = "saleEv"
    /\ TxWrite(t, StockEventCreate(View(t), product[t].id,
                                   -items[t][idx[t]].quantity, "SALE"))
    /\ IF idx[t] < Len(items[t])
       THEN /\ idx' = [idx EXCEPT ![t] = @ + 1]
            /\ pc' = [pc EXCEPT ![t] = "find"]
       ELSE /\ idx' = idx
            /\ pc' = [pc EXCEPT ![t] = "saleCreate"]
    /\ UNCHANGED <<op, items, pm, total, product, mark, result, used, tills, receipt, pos>>

\* faulty variant: the Sale row is written over the rows already stored
SaleRecordOverwriting(t) ==
    /\ pc[t] = "saleCreate"
    /\ WriteStep(t, "saleCreate", "commit",
                 SaleCreate([View(t) EXCEPT !.sales = <<>>],
                            total[t], pm[t], items[t]))

\* processSale: tx.sale.create with its SaleItem rows
SaleRecord(t) ==
    /\ pc[t] = "saleCreate"
    /\ WriteStep(t, "saleCreate", "commit",
                 SaleCreate(View(t), total[t], pm[t], items[t]))

\* faulty variant: only the sign is tested
SkipsEntryNonPositive(entry) == entry.quantity <= 0

\* receiveStock: "if (!Number.isFinite(entry.quantity) || entry.quantity <= 0) continue"
SkipsEntry(entry) == ~entry.finite \/ entry.quantity <= 0

\* receiveStock: the position of the first entry at or after i that is not skipped
RECURSIVE NextEntry(_, _)
NextEntry(its, i) ==
    IF i > Len(its) THEN i
    ELSE IF SkipsEntry(its[i]) THEN NextEntry(its, i + 1)
    ELSE i

\* receiveStock, up to the first statement of the transaction
ReceiveStock(t) ==
    \E its \in SeqsUpTo(RecvEntries, MaxLines - used) :
        /\ StartCall(t, "receive", its, "CASH")
        /\ UNCHANGED pos
        /\ IF Len(its) = 0
           THEN /\ pc' = [pc EXCEPT ![t] = "done"]
                /\ result' = [result EXCEPT ![t] = "ok"]
                /\ idx' = [idx EXCEPT ![t] = 1]
           ELSE /\ pc' = [pc EXCEPT ![t] =
                            IF NextEntry(its, 1) <= Len(its) THEN "rcvUpd" ELSE "commit"]
                /\ result' = [result EXCEPT ![t] = "none"]
                /\ idx' = [idx EXCEPT ![t] = NextEntry(its, 1)]

\* receiveStock: stockQty increment by the entry's quantity
ReceiveUpdate(t) ==
    /\ pc[t] = "rcvUpd"
    /\ LET entry == items[t][idx[t]]
       IN IF entry.productId \notin Products
          THEN Rollback(t, "Record to update not found")
          ELSE /\ mark' = [mark EXCEPT ![t] = View(t)]
               /\ TxWrite(t, ProductUpdate(View(t), entry.productId, entry.quantity))
               /\ pc' = [pc EXCEPT ![t] = "rcvEv"]
               /\ UNCHANGED <<op, items, pm, idx, total, product, result, used, tills, receipt, pos>>

\* faulty variant: a RESTOCK row for the product of the previous row is merged
\* into that row
ReceiveEventMerged(t) ==
    /\ pc[t] = "rcvEv"
    /\ LET entry == items[t][idx[t]]
           j == NextEntry(items[t], idx[t] + 1)
           ev == View(t).events
           n == Len(ev)
       IN /\ TxWrite(t,
                IF n > 0 /\ ev[n].productId = entry.productId
                         /\ ev[n].reason = "RESTOCK"
                THEN [View(t) EXCEPT !.events[n].delta = @ + entry.quantity]
                ELSE StockEventCreate(View(t), entry.productId, entry.quantity,
                                      "RESTOCK"))
          /\ idx' = [idx EXCEPT ![t] = j]
          /\ pc' = [pc EXCEPT ![t] = IF j <= Len(items[t]) THEN "rcvUpd" ELSE "commit"]
    /\ UNCHANGED <<op, items, pm, total, product, mark, result, used, tills, receipt, pos>>

\* receiveStock: RESTOCK event, then the next entry that is not skipped
ReceiveEvent(t) ==
    /\ pc[t] = "rcvEv"
    /\ LET entry == items[t][idx[t]]
           j == NextEntry(items[t], idx[t] + 1)
       IN /\ TxWrite(t, StockEventCreate(View(t), entry.productId, entry.quantity,
                                         "RESTOCK"))
          /\ idx' = [idx EXCEPT ![t] = j]
          /\ pc' = [pc EXCEPT ![t] = IF j <= Len(items[t]) THEN "rcvUpd" ELSE "commit"]
    /\ UNCHANGED <<op, items, pm, total, product, mark, result, used, tills, receipt, pos>>

\* The callback returned: the transaction commits and its writes become
\* the committed database.
Commit(t) ==
    /\ pc[t] = "commit"
    /\ db' = IF lock = t THEN work[t] ELSE db
    /\ lock' = IF lock = t THEN NoTill ELSE lock
    /\ pc' = [pc EXCEPT ![t] = "done"]
    /\ result' = [result EXCEPT ![t] = "ok"]
    /\ UNCHANGED <<op, items, pm, idx, total, product, work, snap, mark, used, tills, receipt, pos>>

\* A storage failure or a transaction timeout at any statement.
StorageFailure(t) ==
    /\ pc[t] \in InFlight
    /\ Rollback(t, "PersistenceError")

\* faulty variant: the refused writer waits for the lock without a timeout
BusyWaits(t) ==
    /\ pc[t] \in {"brkSrcUpd", "saleUpd", "rcvUpd"}
    /\ ~CanWrite(t)
    /\ FALSE
    /\ UNCHANGED vars

\* The database is locked by another writer, or the snapshot is stale.
Busy(t) ==
    /\ pc[t] \in {"brkSrcUpd", "saleUpd", "rcvUpd"}
    /\ ~CanWrite(t)
    /\ Rollback(t, "SQLITE_BUSY")

\* What a read outside any transaction returns (product search, reports,
\* the harness): the committed database.
ReaderView == db

Next ==
    \/ \E t \in tills : ProcessSale(t)
    \/ \E t \in tills : SaleFind(t)
    \/ \E t \in tills : BreakSourceUpdate(t)
    \/ \E t \in tills : BreakSourceEvent(t)
    \/ \E t \in tills : BreakDestUpdate(t)
    \/ \E t \in tills : BreakDestEvent(t)
    \/ \E t \in tills : SaleUpdate(t)
    \/ \E t \in tills : SaleEvent(t)
    \/ \E t \in tills : SaleRecord(t)
    \/ \E t \in tills : ReceiveStock(t)
    \/ \E t \in tills : ReceiveUpdate(t)
    \/ \E t \in tills : ReceiveEvent(t)
    \/ \E t \in tills : Commit(t)
    \/ \E t \in tills : StorageFailure(t)
    \/ \E t \in tills : Busy(t)

Spec == Init /\ [][Next]_vars

\* The next statement of t's open transaction: the event loop resumes every
\* awaited statement, and the database answers every statement, with the
\* result or with SQLITE_BUSY when its busy timeout runs out.
TillStep(t) ==
    \/ SaleFind(t)
    \/ BreakSourceUpdate(t)
    \/ BreakSourceEvent(t)
    \/ BreakDestUpdate(t)
    \/ BreakDestEvent(t)
    \/ SaleUpdate(t)
    \/ SaleEvent(t)
    \/ SaleRecord(t)
    \/ ReceiveUpdate(t)
    \/ ReceiveEvent(t)
    \/ Commit(t)
    \/ Busy(t)

\* The engine with every open transaction eventually taking its next
\* statement; new calls and storage failures may or may not happen.
FairSpec == Spec /\ \A t \in Tills : WF_vars(TillStep(t))

----------------------------------------------------------------------------
(* The rest of the repository: receipt printing from the POS screen, the    *)
(* catalog service and the harness script.  Their statements go through the *)
(* shared client outside any transaction: each is committed on its own, and *)
(* needs the write lock to be free.                                         *)

\* the id of the Sale row t's call returned
SaleId(t) == Len(work[t].sales)

\* faulty variant: a failed print voids the sale
PrintSaleReceiptVoiding(t) ==
    /\ pc[t] = "done" /\ op[t] = "sale" /\ receipt[t] = "none"
    /\ \E printed \in BOOLEAN :
          IF printed /\ SaleId(t) \in 1..Len(db.sales)
          THEN /\ receipt' = [receipt EXCEPT ![t] = "printed"]
               /\ db' = db
          ELSE /\ receipt' = [receipt EXCEPT ![t] =
                                 "Sale saved but printing failed"]
               /\ db' = IF lock = NoTill THEN snap[t] ELSE db
    /\ UNCHANGED <<lock, pc, op, items, pm, idx, total, product, work, snap, mark,
                   result, used, tills, pos>>

\* handleCashPay / handleMpesaConfirm after sale.create returned:
\* printSaleReceipt(sale.id) reads the sale and prints it; a throw is caught
\* and shown as a message
PrintSaleReceipt(t) ==
    /\ pc[t] = "done" /\ op[t] = "sale" /\ receipt[t] = "none"
    /\ \E printed \in BOOLEAN :
          receipt' = [receipt EXCEPT ![t] =
                         IF printed /\ SaleId(t) \in 1..Len(db.sales)
                         THEN "printed"
                         ELSE "Sale saved but printing failed"]
    /\ UNCHANGED <<db, lock, pc, op, items, pm, idx, total, product, work, snap,
                   mark, result, used, tills, pos>>

\* the prices an owner types for a scanned barcode
NewPrices == {0, 120}

\* upsertBasicProduct: "if (!Number.isFinite(price) || price <= 0) throw"
RejectsPrice(price) == price <= 0

\* faulty variant: the new price is also written to the product's SaleItems
UpsertBasicProductRepricing ==
    \E p \in HarnessProducts, price \in NewPrices :
        /\ used < MaxLines
        /\ used' = used + 1
        /\ lock = NoTill
        /\ db' = IF RejectsPrice(price) THEN db
                 ELSE [db EXCEPT
                         !.price = [@ EXCEPT ![p] = price],
                         !.sales = [k \in 1..Len(@) |->
                            [@[k] EXCEPT !.items = [j \in 1..Len(@) |->
                               IF @[j].productId = p
                               THEN [@[j] EXCEPT !.priceAtSale = price]
                               ELSE @[j]]]]]
        /\ UNCHANGED <<lock, pc, op, items, pm, idx, total, product, work, snap,
                       mark, result, tills, receipt, pos>>

\* upsertBasicProduct on the barcode of an existing product: name and price
\* are updated, nothing else
UpsertBasicProduct ==
    \E p \in HarnessProducts, price \in NewPrices :
        /\ used < MaxLines
        /\ used' = used + 1
        /\ lock = NoTill
        /\ db' = IF RejectsPrice(price) THEN db
                 ELSE [db EXCEPT !.price = [@ EXCEPT ![p] = price]]
        /\ UNCHANGED <<lock, pc, op, items, pm, idx, total, product, work, snap,
                       mark, result, tills, receipt, pos>>

\* stockQty the harness writes on its two products
HarnessStock(p) == IF p = Sack THEN 2 ELSE 0

\* faulty variant: the harness also clears the ledger rows of the product
HarnessUpsertClearing ==
    \E p \in HarnessProducts :
        /\ used < MaxLines
        /\ used' = used + 1
        /\ lock = NoTill
        /\ db' = [db EXCEPT !.stock = [@ EXCEPT ![p] = HarnessStock(p)],
                            !.price = [@ EXCEPT ![p] = CatalogPrice(p)],
                            !.events = SelectSeq(@, LAMBDA e : e.productId # p)]
        /\ UNCHANGED <<lock, pc, op, items, pm, idx, total, product, work, snap,
                       mark, result, tills, receipt, pos>>

\* InventoryServiceHarness.run: prisma.product.upsert of the parent or of the
\* child, on an existing barcode
HarnessUpsert ==
    \E p \in HarnessProducts :
        /\ used < MaxLines
        /\ used' = used + 1
        /\ lock = NoTill
        /\ db' = [db EXCEPT !.stock = [@ EXCEPT ![p] = HarnessStock(p)],
                            !.price = [@ EXCEPT ![p] = CatalogPrice(p)]]
        /\ UNCHANGED <<lock, pc, op, items, pm, idx, total, product, work, snap,
                       mark, result, tills, receipt, pos>>

NextShop ==
    \/ \E t \in tills : ProcessSale(t)
    \/ \E t \in tills : SaleFind(t)
    \/ \E t \in tills : BreakSourceUpdate(t)
    \/ \E t \in tills : BreakSourceEvent(t)
    \/ \E t \in tills : BreakDestUpdate(t)
    \/ \E t \in tills : BreakDestEvent(t)
    \/ \E t \in tills : SaleUpdate(t)
    \/ \E t \in tills : SaleEvent(t)
    \/ \E t \in tills : SaleRecord(t)
    \/ \E t \in tills : ReceiveStock(t)
    \/ \E t \in tills : ReceiveUpdate(t)
    \/ \E t \in tills : ReceiveEvent(t)
    \/ \E t \in tills : Commit(t)
    \/ \E t \in tills : StorageFailure(t)
    \/ \E t \in tills : Busy(t)
    \/ \E t \in tills : PrintSaleReceipt(t)
    \/ UpsertBasicProduct
    \/ HarnessUpsert

\* the engine together with printing, the catalog service and the harness
SpecShop == Init /\ [][NextShop]_vars

----------------------------------------------------------------------------
(* One till selling from a stocked catalog of parents, children and a       *)
(* grandchild, while the owner adds products to the catalog.                *)

\* the sale lines of the catalog run
CatalogLines == {Line(Kilo, 60, 100), Line(Kilo, 30, 100), Line(Half, 150, 60),
                 Line(Loose, 8, 20), Line(Loose, 5, 20), Line(Scoop, 6, 30)}

\* stockQty per product after stock was received
CatalogStocks ==
    { [p \in Products |-> 0],
      [p \in Products |-> IF p = Sack THEN 5 ELSE 0],
      [p \in Products |->
          IF p = Sack THEN 1 ELSE IF p = Kilo THEN 10
          ELSE IF p = Loose THEN 5 ELSE 0],
      [p \in Products |-> IF p = Kilo THEN 60 ELSE IF p = Scoop THEN 6 ELSE 0] }

RECURSIVE RestockRows(_, _)
\* the RESTOCK rows that brought products 1..p to the stock st
RestockRows(st, p) ==
    IF p = 0 THEN <<>>
    ELSE IF st[p] > 0
    THEN Append(RestockRows(st, p - 1), StockEvent(p, st[p], "RESTOCK"))
    ELSE RestockRows(st, p - 1)

\* the database after receiveStock brought each product to the stock st
Stocked(st) ==
    [EmptyDb EXCEPT !.stock = st,
                    !.events = RestockRows(st, Cardinality(Products))]

InitCatalog ==
    /\ db \in {Stocked(st) : st \in CatalogStocks}
    /\ lock = NoTill
    /\ pc = [t \in Tills |-> "idle"]
    /\ op = [t \in Tills |-> "none"]
    /\ items = [t \in Tills |-> <<>>]
    /\ pm = [t \in Tills |-> "CASH"]
    /\ idx = [t \in Tills |-> 0]
    /\ total = [t \in Tills |-> 0]
    /\ product = [t \in Tills |-> NoProduct]
    /\ work = [t \in Tills |-> NoTx]
    /\ snap = [t \in Tills |-> NoTx]
    /\ mark = [t \in Tills |-> NoTx]
    /\ result = [t \in Tills |-> "none"]
    /\ used = 0
    /\ tills = {"till1"}
    /\ receipt = [t \in Tills |-> "none"]
    /\ pos = NoPos

\* the Product row the catalog service creates (barcode 0 for NULL)
CreatedRow(barcode, name, price) ==
    [barcode |-> barcode, name |-> name, price |-> price, stockQty |-> 0]

\* the names and barcodes an owner types or scans
NewNames == {"", "Avocado"}
ScannedBarcodes == {Kilo} \cup UnknownIds

\* createCustomProduct / upsertBasicProduct: "if (!trimmedName) throw"
RejectsName(name) == name = ""

\* faulty variant: the new product is created with an opening stock of one
CreateCustomProductStocked ==
    \E name \in NewNames, price \in NewPrices :
        /\ used < MaxLines
        /\ used' = used + 1
        /\ lock = NoTill
        /\ db' = IF RejectsName(name) \/ RejectsPrice(price) THEN db
                 ELSE [db EXCEPT !.custom =
                          Append(@, [CreatedRow(0, name, price)
                                        EXCEPT !.stockQty = 1])]
        /\ UNCHANGED <<lock, pc, op, items, pm, idx, total, product, work, snap,
                       mark, result, tills, receipt, pos>>

\* createCustomProduct(name, price)
CreateCustomProduct ==
    \E name \in NewNames, price \in NewPrices :
        /\ used < MaxLines
        /\ used' = used + 1
        /\ lock = NoTill
        /\ db' = IF RejectsName(name) \/ RejectsPrice(price) THEN db
                 ELSE [db EXCEPT !.custom = Append(@, CreatedRow(0, name, price))]
        /\ UNCHANGED <<lock, pc, op, items, pm, idx, total, product, work, snap,
                       mark, result, tills, receipt, pos>>

\* upsertBasicProduct(barcode, name, price) on a scanned barcode: a row with
\* that barcode gets the name and the price, otherwise a row is created
UpsertScanned ==
    \E barcode \in ScannedBarcodes, name \in NewNames, price \in NewPrices :
        /\ used < MaxLines
        /\ used' = used + 1
        /\ lock = NoTill
        /\ db' =
             IF RejectsName(name) \/ RejectsPrice(price) THEN db
             ELSE IF barcode \in Products
             THEN [db EXCEPT !.price = [@ EXCEPT ![barcode] = price]]
             ELSE IF \E k \in 1..Len(db.custom) : db.custom[k].barcode = barcode
             THEN [db EXCEPT !.custom = [k \in 1..Len(@) |->
                      IF @[k].barcode = barcode
                      THEN [@[k] EXCEPT !.name = name, !.price = price]
                      ELSE @[k]]]
             ELSE [db EXCEPT !.custom = Append(@, CreatedRow(barcode, name, price))]
        /\ UNCHANGED <<lock, pc, op, items, pm, idx, total, product, work, snap,
                       mark, result, tills, receipt, pos>>

\* processSale called with lines on the catalog's products
ProcessSaleCatalog(t) ==
    \E its \in SeqsUpTo(CatalogLines, MaxLines - used), method \in PaymentMethods :
        SaleCall(t, its, method) /\ UNCHANGED pos

NextCatalog ==
    \/ \E t \in tills : ProcessSaleCatalog(t)
    \/ \E t \in tills : SaleFind(t)
    \/ \E t \in tills : BreakSourceUpdate(t)
    \/ \E t \in tills : BreakSourceEvent(t)
    \/ \E t \in tills : BreakDestUpdate(t)
    \/ \E t \in tills : BreakDestEvent(t)
    \/ \E t \in tills : SaleUpdate(t)
    \/ \E t \in tills : SaleEvent(t)
    \/ \E t \in tills : SaleRecord(t)
    \/ \E t \in tills : Commit(t)
    \/ \E t \in tills : StorageFailure(t)
    \/ \E t \in tills : Busy(t)
    \/ CreateCustomProduct
    \/ UpsertScanned

SpecCatalog == InitCatalog /\ [][NextCatalog]_vars

----------------------------------------------------------------------------
(* PaymentService: what the M-Pesa gateway answers and what the service    *)
(* makes of it.                                                             *)

\* a ResultCode of the gateway's body: a JSON string, a JSON number, or absent
Code(kind, text) == [kind |-> kind, text |-> text]
NoCode == Code("undefined", "")

\* one exchange with the gateway: did the access token arrive, did fetch
\* resolve, did the body parse, was the HTTP status OK, and the ResultCode
Answer(token, network, json, httpOk, code) ==
    [token |-> token, network |-> network, json |-> json, httpOk |-> httpOk,
     code |-> code]

StatusCodes == {Code("string", "0"), Code("number", "0"), Code("string", "1032"),
                Code("string", "1"), Code("string", "1001"), Code("string", "10"),
                Code("number", "1032"), Code("string", "17"), NoCode}

\* the exchanges of a status query
StatusAnswers ==
    {Answer(TRUE, TRUE, TRUE, TRUE, c) : c \in StatusCodes}
        \cup {Answer(FALSE, TRUE, TRUE, TRUE, Code("string", "0")),
              Answer(TRUE, FALSE, TRUE, TRUE, Code("string", "0")),
              Answer(TRUE, TRUE, FALSE, TRUE, NoCode),
              Answer(TRUE, TRUE, TRUE, FALSE, Code("string", "0"))}

Status(s) == [status |-> s]
Thrown == Status("THROWN")

\* checkStatus: the body of the try block around fetch
StatusQuery(r) ==
    IF ~r.network \/ ~r.json THEN Thrown
    ELSE IF ~r.httpOk THEN Status("MANUAL_VERIFY_NEEDED")
    ELSE IF r.code \in {Code("string", "0"), Code("number", "0")}
    THEN Status("SUCCESS")
    ELSE IF r.code \in {Code("string", "1032"), Code("string", "1")}
    THEN Status("FAILED")
    ELSE IF r.code \in {Code("string", "1001"), Code("string", "10")}
    THEN Status("PENDING")
    ELSE Status("MANUAL_VERIFY_NEEDED")

\* faulty variant: the error is thrown on to the caller
CaughtRethrown(res) == res

\* checkStatus: "catch (error) { return { status: MANUAL_VERIFY_NEEDED } }"
Caught(res) == IF res = Thrown THEN Status("MANUAL_VERIFY_NEEDED") ELSE res

\* PaymentService.checkStatus(checkoutRequestId)
CheckStatus(r) ==
    IF ~r.token THEN Status("MANUAL_VERIFY_NEEDED")
    ELSE Caught(StatusQuery(r))

\* the exchanges of an STK push: the code stands for the CheckoutRequestID
StkAnswers ==
    {Answer(TRUE, TRUE, TRUE, TRUE, Code("string", "ws_CO_1")),
     Answer(FALSE, TRUE, TRUE, TRUE, NoCode),
     Answer(TRUE, FALSE, TRUE, TRUE, NoCode),
     Answer(TRUE, TRUE, TRUE, FALSE, NoCode),
     Answer(TRUE, TRUE, TRUE, TRUE, NoCode)}

\* PaymentService.initiateSTK(phone, amount): OK with a CheckoutRequestID, or
\* ERROR
InitiateSTK(r) ==
    IF r.token /\ r.network /\ r.json /\ r.httpOk /\ r.code # NoCode
    THEN Status("OK") ELSE Status("ERROR")

----------------------------------------------------------------------------
(* The POS screen (PosLayout): one cashier builds a cart and takes cash or  *)
(* M-Pesa.  A handler sees the cart of the render in which it was clicked.  *)

\* the products of the grid, with the prices loaded at mount
PosProducts == HarnessProducts
Phones == {"", "0712345678"}

CartItem(p, q) == [id |-> p, price |-> CatalogPrice(p), quantity |-> q]

InCart(cart, p) == \E k \in 1..Len(cart) : cart[k].id = p

RECURSIVE CartTotal(_)
\* total: cart.reduce((sum, item) => sum + item.price * item.quantity, 0)
CartTotal(cart) ==
    IF cart = <<>> THEN 0
    ELSE CartTotal(SubSeq(cart, 1, Len(cart) - 1))
         + cart[Len(cart)].price * cart[Len(cart)].quantity

\* cart.map((item) => ({ productId, quantity, unitPrice: item.price }))
CartLines(cart) ==
    [k \in 1..Len(cart) |-> Line(cart[k].id, cart[k].quantity, cart[k].price)]

\* a handler that made no status query: status and response hold the answer
\* to the query of the payment handler that is running or, when none is
\* running, of the last handler that ran, if it made one
NoQuery(next) ==
    IF next.phase = "idle"
    THEN [next EXCEPT !.status = "none", !.response = NoResponse]
    ELSE next

\* a handler that only sets state of the screen
PosOnly(next) ==
    /\ pos' = next
    /\ UNCHANGED <<db, lock, pc, op, items, pm, idx, total, product, work, snap,
                   mark, result, used, tills, receipt>>

\* addToCart(product)
AddToCart ==
    \E p \in PosProducts :
        IF InCart(pos.cart, p)
        THEN /\ \E k \in 1..Len(pos.cart) :
                   pos.cart[k].id = p /\ pos.cart[k].quantity < MaxQty
             /\ PosOnly(NoQuery([pos EXCEPT !.cart = [k \in 1..Len(@) |->
                            IF @[k].id = p
                            THEN [@[k] EXCEPT !.quantity = @ + 1]
                            ELSE @[k]]]))
        ELSE PosOnly(NoQuery([pos EXCEPT !.cart = Append(@, CartItem(p, 1))]))

\* removeFromCart(productId)
RemoveFromCart ==
    \E p \in PosProducts :
        /\ InCart(pos.cart, p)
        /\ PosOnly(NoQuery([pos EXCEPT !.cart =
                SelectSeq([k \in 1..Len(@) |->
                              IF @[k].id = p
                              THEN [@[k] EXCEPT !.quantity = @ - 1]
                              ELSE @[k]],
                          LAMBDA item : item.quantity > 0)]))

\* clearCart, enabled while the cart is not empty and nothing is being paid
ClearCart ==
    /\ pos.cart # <<>> /\ pos.phase = "idle"
    /\ PosOnly(NoQuery([pos EXCEPT !.cart = <<>>]))

\* handleCashPay, up to the call of sale.create
CashPay(t) ==
    /\ pos.cart # <<>> /\ pos.phase = "idle"
    /\ SaleCall(t, CartLines(pos.cart), "CASH")
    /\ pos' = [pos EXCEPT !.phase = "cash", !.checkoutId = 0, !.pushed = 0,
                          !.status = "none", !.response = NoResponse]

\* handleMpesaInitiate: the STK push is sent for the total of the cart
MpesaInitiate ==
    /\ pos.cart # <<>> /\ pos.phase = "idle"
    /\ pos.pushes < MaxPushes
    /\ \E phone \in Phones, r \in StkAnswers :
          IF phone = ""
          THEN PosOnly(NoQuery(pos))
          ELSE IF InitiateSTK(r).status = "OK"
          THEN PosOnly([pos EXCEPT !.checkoutId = pos.pushes + 1,
                                   !.pushed = CartTotal(pos.cart),
                                   !.pushes = @ + 1,
                                   !.status = "none", !.response = NoResponse])
          ELSE PosOnly([pos EXCEPT !.checkoutId = 0, !.pushed = 0,
                                   !.pushes = @ + 1,
                                   !.status = "none", !.response = NoResponse])

\* faulty variant: a status that is not FAILED or PENDING records the sale
MpesaConfirmUnlessFailed(t) ==
    /\ pos.checkoutId # 0 /\ pos.phase = "idle"
    /\ IF pos.cart = <<>>
       THEN PosOnly(NoQuery(pos))
       ELSE \E r \in StatusAnswers :
               LET res == CheckStatus(r)
               IN IF res.status \notin {"FAILED", "PENDING"}
                  THEN /\ SaleCall(t, CartLines(pos.cart), "MPESA")
                       /\ pos' = [pos EXCEPT !.phase = "mpesa",
                                             !.status = res.status,
                                             !.response = r]
                  ELSE PosOnly([pos EXCEPT !.status = res.status,
                                           !.response = r])

\* handleMpesaConfirm, up to the call of sale.create
MpesaConfirm(t) ==
    /\ pos.checkoutId # 0 /\ pos.phase = "idle"
    /\ IF pos.cart = <<>>
       THEN PosOnly(NoQuery(pos))
       ELSE \E r \in StatusAnswers :
               LET res == CheckStatus(r)
               IN IF res.status = "SUCCESS"
                  THEN /\ SaleCall(t, CartLines(pos.cart), "MPESA")
                       /\ pos' = [pos EXCEPT !.phase = "mpesa",
                                             !.status = res.status,
                                             !.response = r]
                  ELSE PosOnly([pos EXCEPT !.status = res.status,
                                           !.response = r])

\* handleCashPay / handleMpesaConfirm after sale.create: on success, after
\* the print attempt, the cart is emptied (and the checkout forgotten); on a
\* throw the cart is kept and an error is shown
PosSettle(t) ==
    /\ pos.phase # "idle"
    /\ \/ /\ pc[t] = "done" /\ receipt[t] # "none"
          /\ PosOnly([pos EXCEPT !.cart = <<>>, !.phase = "idle",
                  !.checkoutId = IF pos.phase = "mpesa" THEN 0 ELSE @,
                  !.pushed = IF pos.phase = "mpesa" THEN 0 ELSE @])
       \/ /\ pc[t] = "failed"
          /\ PosOnly([pos EXCEPT !.phase = "idle"])

InitPos ==
    /\ db = EmptyDb
    /\ lock = NoTill
    /\ pc = [t \in Tills |-> "idle"]
    /\ op = [t \in Tills |-> "none"]
    /\ items = [t \in Tills |-> <<>>]
    /\ pm = [t \in Tills |-> "CASH"]
    /\ idx = [t \in Tills |-> 0]
    /\ total = [t \in Tills |-> 0]
    /\ product = [t \in Tills |-> NoProduct]
    /\ work = [t \in Tills |-> NoTx]
    /\ snap = [t \in Tills |-> NoTx]
    /\ mark = [t \in Tills |-> NoTx]
    /\ result = [t \in Tills |-> "none"]
    /\ used = 0
    /\ tills = {"till1"}
    /\ receipt = [t \in Tills |-> "none"]
    /\ pos = NoPos

NextPos ==
    \/ AddToCart
    \/ RemoveFromCart
    \/ ClearCart
    \/ MpesaInitiate
    \/ \E t \in tills : CashPay(t)
    \/ \E t \in tills : MpesaConfirm(t)
    \/ \E t \in tills : PosSettle(t)
    \/ \E t \in tills : PrintSaleReceipt(t)
    \/ \E t \in tills : SaleFind(t)
    \/ \E t \in tills : BreakSourceUpdate(t)
    \/ \E t \in tills : BreakSourceEvent(t)
    \/ \E t \in tills : BreakDestUpdate(t)
    \/ \E t \in tills : BreakDestEvent(t)
    \/ \E t \in tills : SaleUpdate(t)
    \/ \E t \in tills : SaleEvent(t)
    \/ \E t \in tills : SaleRecord(t)
    \/ \E t \in tills : Commit(t)
    \/ \E t \in tills : StorageFailure(t)

\* the POS screen driving the engine, the payment service and the printer
SpecPos == InitPos /\ [][NextPos]_vars

----------------------------------------------------------------------------
(* Properties *)

RECURSIVE SumDeltas(_, _)
\* sum of the deltas of the events of product p
SumDeltas(events, p) ==
    IF events = <<>> THEN 0
    ELSE SumDeltas(Tail(events), p)
         + (IF Head(events).productId = p THEN Head(events).delta ELSE 0)

Reconciled(d) == \A p \in Products : SumDeltas(d.events, p) = d.stock[p]

HasReason(d, r) == \E k \in 1..Len(d.events) : d.events[k].reason = r

\* the least number of parent units of f child units each that cover a shortfall
LeastUnits(short, f) ==
    CHOOSE n \in 0..short : n * f >= short /\ (n - 1) * f < short

\* the line of t's sale that was processed last, once its SALE event is written
LineDone(t) ==
    /\ op[t] = "sale"
    /\ \/ pc[t] \in {"saleCreate", "commit", "done"}
       \/ pc[t] = "find" /\ idx[t] > 1
LastLine(t) == IF pc[t] = "find" THEN idx[t] - 1 ELSE idx[t]

\* the events t's transaction appended while it processed its last line
LineEvents(t) ==
    SubSeq(work[t].events, Len(mark[t].events) + 1, Len(work[t].events))

\* the row of the last line's product as it was when that line started
LineProduct(t) == FindUnique(mark[t], items[t][LastLine(t)].productId)

\* the last line broke bulk: short stock, a parent, a positive conversionFactor
LineBreaks(t) ==
    /\ LineProduct(t).stockQty < items[t][LastLine(t)].quantity
    /\ LineProduct(t).parent # 0
    /\ LineProduct(t).conversionFactor > 0

\* C1: in every committed state, for every product the deltas of its
\* StockEvent rows sum to its stockQty.
C1_LedgerReconciles == Reconciled(db)

\* C1 witness: sales and a receipt are committed, one sale with a bulk break
C1_Witness ==
    /\ Len(db.sales) >= 1
    /\ HasReason(db, "RESTOCK")
    /\ HasReason(db, "BULK_BREAK_SOURCE")
    /\ HasReason(db, "SALE")

\* C2: the step in which a processSale call fails (unknown product at any
\* line, storage failure at any statement, busy database) leaves stockQty,
\* the ledger and the Sale rows as they were, and so did every statement the
\* call executed before: only the commit of a call changes them.
C2_FailedSaleChangesNothing ==
    [][\A t \in Tills :
          (op'[t] = "sale" /\ pc'[t] # pc[t] /\ pc'[t] # "done")
              => db' = db]_vars

\* C2 witness: a sale failed on its second line after its first line broke bulk
C2_Witness ==
    \E t \in Tills :
        /\ op[t] = "sale" /\ pc[t] = "failed" /\ idx[t] = 2
        /\ result[t] = "Product not found"
        /\ ShouldBreak(FindUnique(snap[t], items[t][1].productId),
                       items[t][1].quantity)
        /\ db = snap[t]

\* C3: a committed single-line sale of Q on a child with stock C < Q, parent
\* stock P and factor F > 0 leaves the child at C + n*F - Q and the parent at
\* P - n, n the least number of parent units covering Q - C.
C3_BulkBreakStock ==
    \A t \in Tills :
        (/\ op[t] = "sale" /\ pc[t] = "done" /\ Len(items[t]) = 1
         /\ items[t][1].productId \in Products
         /\ ParentOf(items[t][1].productId) # 0
         /\ ConversionFactor(items[t][1].productId) > 0
         /\ snap[t].stock[items[t][1].productId] < items[t][1].quantity)
        => LET child == items[t][1].productId
               parent == ParentOf(child)
               F == ConversionFactor(child)
               Q == items[t][1].quantity
               C == snap[t].stock[child]
               P == snap[t].stock[parent]
               n == LeastUnits(Q - C, F)
           IN /\ work[t].stock[child] = C + n * F - Q
              /\ work[t].stock[parent] = P - n

\* C3 witness: the harness case, P = 2, F = 50, C = 0, Q = 60 gives 0 and 40
C3_Witness ==
    \E t \in Tills :
        /\ op[t] = "sale" /\ pc[t] = "done"
        /\ items[t] = <<Line(Kilo, 60, 100)>>
        /\ snap[t].stock[Sack] = 2 /\ snap[t].stock[Kilo] = 0
        /\ db.stock[Sack] = 0 /\ db.stock[Kilo] = 40

\* C4: a line that breaks bulk appends BULK_BREAK_SOURCE on the parent with
\* delta -n, then BULK_BREAK_DEST on the child with delta +n*F, then SALE on
\* the child with delta -Q, and nothing else.
C4_BreakEventsInOrder ==
    \A t \in Tills :
        (LineDone(t) /\ LineBreaks(t))
        => LET prod == LineProduct(t)
               Q == items[t][LastLine(t)].quantity
               n == LeastUnits(Q - prod.stockQty, prod.conversionFactor)
           IN LineEvents(t) =
                << StockEvent(prod.parent, -n, "BULK_BREAK_SOURCE"),
                   StockEvent(prod.id, n * prod.conversionFactor, "BULK_BREAK_DEST"),
                   StockEvent(prod.id, -Q, "SALE") >>

\* C4 witness: a committed sale whose last line broke bulk
C4_Witness ==
    \E t \in Tills :
        /\ LineDone(t) /\ pc[t] = "done" /\ LineBreaks(t)
        /\ Len(LineEvents(t)) = 3
        /\ SubSeq(db.events, Len(db.events) - 2, Len(db.events)) = LineEvents(t)

KnownSaleErrors == {"Sale requires at least one item", "Product not found",
                    "PersistenceError", "SQLITE_BUSY"}

\* C5: a line of Q > C on a product without parent or positive factor is
\* carried out: stock becomes C - Q, exactly one SALE event of -Q is appended,
\* a finished call returns the Sale, and no sale fails for lack of stock.
C5_NoPreBlocking ==
    \A t \in Tills :
        /\ (LineDone(t) /\ ~LineBreaks(t)
            /\ items[t][LastLine(t)].quantity > LineProduct(t).stockQty)
           => LET prod == LineProduct(t)
                  Q == items[t][LastLine(t)].quantity
              IN /\ work[t].stock[prod.id] = prod.stockQty - Q
                 /\ LineEvents(t) = << StockEvent(prod.id, -Q, "SALE") >>
                 /\ pc[t] = "done" =>
                       /\ result[t] = "ok"
                       /\ work[t].sales # <<>>
                       /\ work[t].sales[Len(work[t].sales)].items[LastLine(t)].quantity = Q
        /\ (op[t] = "sale" /\ pc[t] = "failed") => result[t] \in KnownSaleErrors

\* C5 witness: a sack sold from empty stock, committed with stock -1
C5_Witness ==
    \E t \in Tills :
        /\ op[t] = "sale" /\ pc[t] = "done" /\ result[t] = "ok"
        /\ items[t] = <<Line(Sack, 1, 5000)>>
        /\ snap[t].stock[Sack] = 0
        /\ db.stock[Sack] = -1
        /\ db.events = << StockEvent(Sack, -1, "SALE") >>

C7_ReadersSeeWholeCalls ==
    [][ReaderView' # ReaderView =>
          \E t \in Tills :
              /\ pc[t] = "commit" /\ pc'[t] = "done"
              /\ ReaderView' = work[t]
              /\ Reconciled(ReaderView')]_vars

\* C7 witness: a break took units off the parent in the transaction, the child
\* is not yet incremented, and the reader still sees the state before the call
C7_Witness ==
    \E t \in Tills :
        /\ pc[t] = "brkDstUpd"
        /\ work[t].stock[product[t].parent] < snap[t].stock[product[t].parent]
        /\ ReaderView = snap[t]

\* the entries of a batch that are valid and name an existing product
ValidEntries(its) ==
    {k \in 1..Len(its) : ~SkipsEntry(its[k]) /\ its[k].productId \in Products}

\* C8: when an entry of a receiveStock batch fails on an unknown product id,
\* every valid entry of the batch is still applied.
C8_EntryFailureIsolated ==
    \A t \in Tills :
        (op[t] = "receive" /\ pc[t] = "failed"
         /\ result[t] = "Record to update not found")
        => \A k \in ValidEntries(items[t]) :
              \E e \in 1..Len(db.events) :
                  db.events[e] = StockEvent(items[t][k].productId,
                                            items[t][k].quantity, "RESTOCK")

HasInvalidLine(its) ==
    \E k \in 1..Len(its) : its[k].quantity < 0 \/ its[k].unitPrice < 0

\* C9: a processSale call with a negative quantity or unitPrice is rejected
\* before any side effect: it opens no transaction and creates no Sale.
C9_InvalidLineRejected ==
    \A t \in Tills :
        (op[t] = "sale" /\ HasInvalidLine(items[t]))
        => /\ pc[t] # "done"
           /\ result[t] # "ok"

\* C10: processSale with no items fails before the transaction is opened:
\* the call never reads or writes the database.
C10_EmptySaleRejected ==
    \A t \in Tills :
        (op[t] = "sale" /\ Len(items[t]) = 0)
        => /\ pc[t] = "failed"
           /\ result[t] = "Sale requires at least one item"
           /\ work[t] = NoTx /\ snap[t] = NoTx
           /\ lock # t

\* C10 witness: an empty sale was rejected
C10_Witness ==
    \E t \in Tills :
        /\ op[t] = "sale" /\ Len(items[t]) = 0 /\ pc[t] = "failed"
        /\ db = EmptyDb

RECURSIVE SumLines(_)
\* sum over the lines of unitPrice * quantity
SumLines(its) ==
    IF its = <<>> THEN 0
    ELSE Head(its).unitPrice * Head(its).quantity + SumLines(Tail(its))

\* the SaleItem row a line is stored as
ItemOf(line) == [productId |-> line.productId, quantity |-> line.quantity,
                 priceAtSale |-> line.unitPrice]

\* C11: a successful processSale call with N lines adds exactly one Sale,
\* with the call's paymentMethod, total = the sum of unitPrice * quantity over
\* the lines, and N SaleItems, the k-th with the k-th line's productId,
\* quantity and priceAtSale = unitPrice.
C11_SaleRecord ==
    \A t \in Tills :
        (op[t] = "sale" /\ pc[t] = "done")
        => LET s == work[t].sales
               n == Len(s)
           IN /\ n = Len(snap[t].sales) + 1
              /\ SubSeq(s, 1, n - 1) = snap[t].sales
              /\ s[n].paymentMethod = pm[t]
              /\ s[n].total = SumLines(items[t])
              /\ Len(s[n].items) = Len(items[t])
              /\ \A k \in 1..Len(items[t]) : s[n].items[k] = ItemOf(items[t][k])

\* C11 witness: a committed two-line M-Pesa sale, one line sold below the
\* catalog price
C11_Witness ==
    \E t \in Tills :
        /\ op[t] = "sale" /\ pc[t] = "done" /\ pm[t] = "MPESA"
        /\ items[t] = <<Line(Kilo, 30, 90), Line(Sack, 1, 5000)>>
        /\ db.price[Kilo] # 90
        /\ Len(db.sales) = 1
        /\ db.sales[1].total = 7700
        /\ db.sales[1].items[1].priceAtSale = 90

\* s is t with zero or more rows appended at the end
IsPrefix(s, t) == Len(s) <= Len(t) /\ SubSeq(t, 1, Len(s)) = s

\* C12: in every step of the system (sale and receive statements, commits,
\* rollbacks, printing, catalog and harness writes) the committed ledger is
\* the previous committed ledger with zero or more rows appended at the end.
C12_LedgerAppendOnly ==
    [][IsPrefix(db.events, db'.events)]_vars

\* C12 witness: the ledger rows of a call are committed and a catalog price
\* was changed before or after
C12_Witness ==
    /\ Len(db.events) >= 1
    /\ db.price # EmptyDb.price
    /\ \E t \in Tills : pc[t] = "done" /\ db.events = work[t].events

RECURSIVE SumItems(_)
\* sum over the stored SaleItems of priceAtSale * quantity
SumItems(its) ==
    IF its = <<>> THEN 0
    ELSE Head(its).priceAtSale * Head(its).quantity + SumItems(Tail(its))

\* C13: a step that changes a catalog price leaves every committed Sale and
\* its SaleItems as they were, and for every committed Sale the sum of
\* priceAtSale * quantity over its SaleItems equals its total.
C13_PriceSnapshot ==
    [][/\ db'.price # db.price => db'.sales = db.sales
       /\ \A k \in 1..Len(db'.sales) :
             SumItems(db'.sales[k].items) = db'.sales[k].total]_vars

\* C13 witness: kilos were sold at 100, then the kilo's catalog price was
\* changed to 120
C13_Witness ==
    /\ Len(db.sales) = 1
    /\ db.sales[1].items[1].productId = Kilo
    /\ db.sales[1].items[1].priceAtSale = 100
    /\ db.price[Kilo] = 120

\* the entry is not a finite quantity above zero
Invalid(entry) == ~entry.finite \/ entry.quantity <= 0

\* the entries of its at positions 1..n that are finite and above zero
RECURSIVE ValidUpTo(_, _)
ValidUpTo(its, n) ==
    IF n = 0 THEN <<>>
    ELSE IF Invalid(its[n]) THEN ValidUpTo(its, n - 1)
    ELSE Append(ValidUpTo(its, n - 1), its[n])

RECURSIVE Received(_, _)
\* the quantity the entries of its add to product p
Received(its, p) ==
    IF its = <<>> THEN 0
    ELSE Received(Tail(its), p)
         + (IF Head(its).productId = p THEN Head(its).quantity ELSE 0)

\* the RESTOCK rows of a sequence of entries, one per entry, in order
Restocks(its) ==
    [k \in 1..Len(its) |-> StockEvent(its[k].productId, its[k].quantity, "RESTOCK")]

\* C14: a receiveStock batch in which every product exists finishes without
\* error; an entry with a zero, negative or non-finite quantity changes no
\* stock and appends no event, and the valid entries of the batch are
\* applied: stock and ledger are those of the batch without the skipped
\* entries.
C14_InvalidEntriesSkipped ==
    \A t \in Tills :
        /\ (op[t] = "receive" /\ pc[t] = "done")
           => LET ok == ValidUpTo(items[t], Len(items[t]))
                  before == IF snap[t] = NoTx THEN db ELSE snap[t]
                  after == IF work[t] = NoTx THEN db ELSE work[t]
              IN /\ result[t] = "ok"
                 /\ \A p \in Products :
                       after.stock[p] = before.stock[p] + Received(ok, p)
                 /\ after.events = before.events \o Restocks(ok)
        /\ (op[t] = "receive" /\ pc[t] = "failed")
           => \/ result[t] \in {"PersistenceError", "SQLITE_BUSY"}
              \/ /\ result[t] = "Record to update not found"
                 /\ ~Invalid(items[t][idx[t]])

\* C14 witness: a batch of a non-finite entry and a valid entry was committed:
\* only the valid entry changed stock and ledger
C14_Witness ==
    \E t \in Tills :
        /\ op[t] = "receive" /\ pc[t] = "done" /\ result[t] = "ok"
        /\ items[t] = <<NonFinite(Kilo), Entry(Kilo, 10)>>
        /\ db.stock[Kilo] = 10
        /\ db.events = <<StockEvent(Kilo, 10, "RESTOCK")>>

\* C15: entry by entry, a receiveStock transaction has increased the stock
\* of each valid entry's product by exactly its quantity and appended exactly
\* one RESTOCK row of +quantity per entry, in order: an entry whose update is
\* done has its stock added and no row yet, an entry that is done has both;
\* two entries of one product give two rows; no other stock changes.
C15_ReceiveEntryEffect ==
    \A t \in Tills :
        (op[t] = "receive" /\ pc[t] \in {"rcvUpd", "rcvEv", "commit", "done"}
         /\ work[t] # NoTx)
        => LET last == IF idx[t] > Len(items[t]) THEN Len(items[t]) ELSE idx[t] - 1
               logged == ValidUpTo(items[t], last)
               added == IF pc[t] = "rcvEv" THEN Append(logged, items[t][idx[t]])
                        ELSE logged
           IN /\ work[t].events = snap[t].events \o Restocks(logged)
              /\ \A k \in 1..Len(logged) :
                    /\ logged[k].finite /\ logged[k].quantity > 0
                    /\ work[t].events[Len(snap[t].events) + k].delta
                          = logged[k].quantity
              /\ \A p \in Products :
                    work[t].stock[p] = snap[t].stock[p] + Received(added, p)

\* C15 witness: a committed batch of two entries of 10 kilos: stock 20 and
\* two RESTOCK rows of +10
C15_Witness ==
    \E t \in Tills :
        /\ op[t] = "receive" /\ pc[t] = "done"
        /\ items[t] = <<Entry(Kilo, 10), Entry(Kilo, 10)>>
        /\ db.stock = [p \in Products |-> IF p = Kilo THEN 20 ELSE 0]
        /\ db.events = <<StockEvent(Kilo, 10, "RESTOCK"),
                         StockEvent(Kilo, 10, "RESTOCK")>>

\* C16: a concurrency conflict reaches the caller of processSale only after
\* the transaction was retried: no call fails with the conflict after a
\* single attempt.
C16_ConflictRetried ==
    \A t \in Tills :
        (op[t] = "sale" /\ pc[t] = "failed" /\ result[t] = "SQLITE_BUSY")
        => Attempts(t) > 1

\* C17: the step in which printing the receipt of a committed sale fails
\* changes only the message: Sale rows, SaleItems, stock and ledger stay as
\* committed, and the call stays finished with its Sale.
C17_PrintFailureKeepsSale ==
    [][\A t \in Tills :
          (receipt[t] = "none" /\ receipt'[t] = "Sale saved but printing failed")
          => /\ db' = db
             /\ pc'[t] = "done" /\ result'[t] = "ok"
             /\ work'[t] = work[t]]_vars

\* C17 witness: the receipt of a committed M-Pesa sale failed to print and the
\* sale, the stock and the ledger are as the call committed them
C17_Witness ==
    \E t \in Tills :
        /\ op[t] = "sale" /\ pc[t] = "done" /\ pm[t] = "MPESA"
        /\ receipt[t] = "Sale saved but printing failed"
        /\ db = work[t]
        /\ Len(db.sales) = 1 /\ Len(db.events) >= 1

\* C18: every step that changes a product's stockQty or the ledger is the
\* commit of a processSale or receiveStock call.
C18_SingleWritePath ==
    [][(db'.stock # db.stock \/ db'.events # db.events)
          => \E t \in Tills :
                /\ op[t] \in {"sale", "receive"}
                /\ pc[t] = "commit" /\ pc'[t] = "done"
                /\ db' = work[t]]_vars

\* C19: in every step of the system the committed Sale rows, with their
\* SaleItems, are those of the step before with zero or more rows appended.
C19_SalesImmutable ==
    [][IsPrefix(db.sales, db'.sales)]_vars

\* C19 witness: a sale was committed, a later sale was committed after it, and
\* a receipt was printed
C19_Witness ==
    /\ Len(db.sales) = 2
    /\ \E t \in Tills : receipt[t] = "printed"

\* C20: every processSale call that opened its transaction eventually ends,
\* either committed with its Sale returned or rolled back with an error, with
\* the write lock released; storage failures and timeouts at any statement
\* included.
C20_SaleTerminates ==
    \A t \in Tills :
        (op[t] = "sale" /\ pc[t] \in InFlight)
        ~> \/ pc[t] = "done" /\ result[t] = "ok" /\ lock # t
           \/ /\ pc[t] = "failed" /\ result[t] \in KnownSaleErrors
              /\ work[t] = NoTx /\ lock # t

\* C20 witness: one two-line sale ended rolled back by a storage failure at
\* its second line, with the database as it was before the call
C20_Witness ==
    \E t \in Tills :
        /\ op[t] = "sale" /\ pc[t] = "failed" /\ Len(items[t]) = 2
        /\ idx[t] = 2 /\ result[t] = "PersistenceError"
        /\ lock = NoTill /\ db = snap[t]

\* C21: every RESTOCK and BULK_BREAK_DEST row has a delta above zero and
\* every SALE and BULK_BREAK_SOURCE row a delta below zero, in the committed
\* ledger and in the ledger of every open transaction.
C21_LedgerSigns ==
    \A d \in {db} \cup {work[t] : t \in {u \in Tills : work[u] # NoTx}} :
        \A k \in 1..Len(d.events) :
            /\ d.events[k].reason \in {"RESTOCK", "BULK_BREAK_DEST"}
                  => d.events[k].delta > 0
            /\ d.events[k].reason \in {"SALE", "BULK_BREAK_SOURCE"}
                  => d.events[k].delta < 0

\* the rows t's transaction appended to the ledger
Appended(t) ==
    SubSeq(work[t].events, Len(snap[t].events) + 1, Len(work[t].events))

\* the product of line k is short at stock c and has a parent and a positive
\* conversionFactor
ShortChild(line, c) ==
    /\ c < line.quantity
    /\ ParentOf(line.productId) # 0
    /\ ConversionFactor(line.productId) > 0

\* C22: a two-line sale on two different children of one parent, both short:
\* the parent ends at P - n1 - n2 and the ledger got two BULK_BREAK_SOURCE
\* rows on the parent, -n1 then -n2, n_i the least number of parent units
\* covering Q_i - C_i.
C22_TwoChildrenOneParent ==
    \A t \in Tills :
        (/\ op[t] = "sale" /\ pc[t] \in {"saleCreate", "commit", "done"}
         /\ Len(items[t]) = 2
         /\ items[t][1].productId # items[t][2].productId
         /\ ParentOf(items[t][1].productId) = ParentOf(items[t][2].productId)
         /\ ShortChild(items[t][1], snap[t].stock[items[t][1].productId])
         /\ ShortChild(items[t][2], snap[t].stock[items[t][2].productId]))
        => LET l1 == items[t][1]
               l2 == items[t][2]
               parent == ParentOf(l1.productId)
               n1 == LeastUnits(l1.quantity - snap[t].stock[l1.productId],
                                ConversionFactor(l1.productId))
               n2 == LeastUnits(l2.quantity - snap[t].stock[l2.productId],
                                ConversionFactor(l2.productId))
           IN /\ work[t].stock[parent] = snap[t].stock[parent] - n1 - n2
              /\ SelectSeq(Appended(t), LAMBDA e : e.reason = "BULK_BREAK_SOURCE")
                    = << StockEvent(parent, -n1, "BULK_BREAK_SOURCE"),
                         StockEvent(parent, -n2, "BULK_BREAK_SOURCE") >>

\* C22 witness: 60 kilos then 150 halves sold from 5 sacks: 2 sacks broken,
\* then 2 more, 1 sack left
C22_Witness ==
    \E t \in Tills :
        /\ op[t] = "sale" /\ pc[t] = "done"
        /\ items[t] = <<Line(Kilo, 60, 100), Line(Half, 150, 60)>>
        /\ snap[t].stock[Sack] = 5
        /\ db.stock[Sack] = 1 /\ db.stock[Kilo] = 40 /\ db.stock[Half] = 50

\* C23: a line appends three ledger rows, after a bulk break, exactly when
\* the stock read for it is below its quantity and its product has a parent
\* and a conversionFactor above zero; any other line (stock equal to the
\* quantity, no parent, a null conversionFactor) appends the one SALE row and
\* leaves the parent's stock as it was.
C23_BreakTrigger ==
    \A t \in Tills :
        LineDone(t)
        => LET prod == LineProduct(t)
               Q == items[t][LastLine(t)].quantity
           IN /\ LineBreaks(t) <=> Len(LineEvents(t)) = 3
              /\ ~LineBreaks(t) <=> Len(LineEvents(t)) = 1
              /\ LineBreaks(t) =>
                    /\ LineEvents(t)[1].reason = "BULK_BREAK_SOURCE"
                    /\ LineEvents(t)[2].reason = "BULK_BREAK_DEST"
                    /\ LineEvents(t)[3].reason = "SALE"
              /\ ~LineBreaks(t) =>
                    /\ LineEvents(t) = << StockEvent(prod.id, -Q, "SALE") >>
                    /\ prod.parent # 0 =>
                          work[t].stock[prod.parent] = mark[t].stock[prod.parent]

\* C23 witness: 60 kilos sold from a stock of exactly 60, then 8 loose units
\* sold from none with a parent but no conversionFactor: two SALE rows, the
\* sacks untouched
C23_Witness ==
    \E t \in Tills :
        /\ op[t] = "sale" /\ pc[t] = "done"
        /\ items[t] = <<Line(Kilo, 60, 100), Line(Loose, 8, 20)>>
        /\ snap[t].stock[Kilo] = 60
        /\ Appended(t) = << StockEvent(Kilo, -60, "SALE"),
                            StockEvent(Loose, -8, "SALE") >>
        /\ db.stock[Loose] = -8 /\ db.stock[Sack] = snap[t].stock[Sack]

\* the products a sale may write: the products of its lines and their
\* direct parents
Touched(its) ==
    {its[k].productId : k \in 1..Len(its)}
        \cup {ParentOf(its[k].productId) : k \in 1..Len(its)}

\* C24: a sale writes only the products of its lines and their direct
\* parents: every other product, the parent's parent included, keeps its
\* stock and gets no ledger row, also when a break leaves the direct parent
\* below zero.
C24_OneHopBreak ==
    \A t \in Tills :
        (op[t] = "sale" /\ work[t] # NoTx)
        => \A p \in Products \ Touched(items[t]) :
              /\ work[t].stock[p] = snap[t].stock[p]
              /\ \A k \in 1..Len(Appended(t)) : Appended(t)[k].productId # p

\* C24 witness: 6 scoops sold from none with no kilos and 5 sacks: 2 kilos
\* broken, the kilo at -2, the sacks still 5
C24_Witness ==
    \E t \in Tills :
        /\ op[t] = "sale" /\ pc[t] = "done"
        /\ items[t] = <<Line(Scoop, 6, 30)>>
        /\ snap[t].stock[Sack] = 5 /\ snap[t].stock[Kilo] = 0
        /\ db.stock[Scoop] = 2 /\ db.stock[Kilo] = -2 /\ db.stock[Sack] = 5
        /\ Len(Appended(t)) = 3

\* C25: a line of quantity Q > 0 that breaks bulk on a child of stock C and
\* factor F takes n >= 1 units off the parent, n the least integer with
\* C + n*F >= Q, and leaves the child with 0 <= stock < F.
C25_MinimalBreak ==
    \A t \in Tills :
        (LineDone(t) /\ LineBreaks(t) /\ items[t][LastLine(t)].quantity > 0)
        => LET prod == LineProduct(t)
               Q == items[t][LastLine(t)].quantity
               C == prod.stockQty
               F == prod.conversionFactor
               n == mark[t].stock[prod.parent] - work[t].stock[prod.parent]
           IN /\ n >= 1
              /\ C + n * F >= Q
              /\ C + (n - 1) * F < Q
              /\ work[t].stock[prod.id] = C + n * F - Q
              /\ work[t].stock[prod.id] >= 0
              /\ work[t].stock[prod.id] < F

\* C25 witness: 60 kilos sold from a stock of 10 with a factor of 50: exactly
\* one sack broken, no kilo left
C25_Witness ==
    \E t \in Tills :
        /\ op[t] = "sale" /\ pc[t] = "done"
        /\ items[t] = <<Line(Kilo, 60, 100)>>
        /\ snap[t].stock[Kilo] = 10 /\ snap[t].stock[Sack] = 1
        /\ db.stock[Kilo] = 0 /\ db.stock[Sack] = 0

\* the parent units a line of product stock c takes
UnitsFor(line, c) ==
    IF ShortChild(line, c)
    THEN LeastUnits(line.quantity - c, ConversionFactor(line.productId))
    ELSE 0

\* the stock of a line's product after the line, from stock c
StockAfter(line, c) ==
    c + UnitsFor(line, c) * ConversionFactor(line.productId) - line.quantity

\* C26: in a sale with two lines for one product, the second line decides
\* and computes its break from the stock the first line left (surplus of the
\* first break included), not from the stock at the start of the call.
C26_RepeatedProduct ==
    \A t \in Tills :
        (/\ op[t] = "sale" /\ pc[t] \in {"saleCreate", "commit", "done"}
         /\ Len(items[t]) = 2
         /\ items[t][1].productId = items[t][2].productId)
        => LET p == items[t][1].productId
               c0 == snap[t].stock[p]
               c1 == StockAfter(items[t][1], c0)
               n1 == UnitsFor(items[t][1], c0)
               n2 == UnitsFor(items[t][2], c1)
           IN /\ work[t].stock[p] = StockAfter(items[t][2], c1)
              /\ ParentOf(p) # 0 =>
                    work[t].stock[ParentOf(p)]
                        = snap[t].stock[ParentOf(p)] - n1 - n2

\* C26 witness: 60 kilos then 30 kilos sold from none with a factor of 50:
\* 2 sacks broken in all, 10 kilos left
C26_Witness ==
    \E t \in Tills :
        /\ op[t] = "sale" /\ pc[t] = "done"
        /\ items[t] = <<Line(Kilo, 60, 100), Line(Kilo, 30, 100)>>
        /\ snap[t].stock[Kilo] = 0 /\ snap[t].stock[Sack] = 5
        /\ db.stock[Kilo] = 10 /\ db.stock[Sack] = 3
        /\ Len(Appended(t)) = 4

\* C27: a step of the catalog service (a price changed or a row created or
\* renamed) leaves every stockQty, the ledger and the Sale rows as they were;
\* the rows it created have stockQty 0, and no ledger row names them.
C27_CatalogKeepsStock ==
    [][(db'.price # db.price \/ db'.custom # db.custom)
          => /\ db'.stock = db.stock
             /\ db'.events = db.events
             /\ db'.sales = db.sales
             /\ \A k \in 1..Len(db'.custom) : db'.custom[k].stockQty = 0
             /\ \A k \in 1..Len(db.custom) :
                   db'.custom[k].barcode = db.custom[k].barcode
             /\ \A e \in 1..Len(db'.events) :
                   db'.events[e].productId \in Products]_vars

\* C27 witness: on a stocked catalog a product was created and the kilo was
\* repriced; the kilo's stock and the ledger are as received
C27_Witness ==
    /\ Len(db.custom) >= 1
    /\ db.price[Kilo] = 120
    /\ db.stock[Kilo] = 60
    /\ Len(db.events) >= 1

\* the statuses of a payment that is not known to be paid
NotPaid == {"PENDING", "FAILED", "MANUAL_VERIFY_NEEDED", "THROWN"}

\* C28: a sale with paymentMethod MPESA is started, and its Sale row is
\* committed, only while a checkoutRequestId is held and the status check of
\* the running confirmation returned SUCCESS; a confirmation that got PENDING,
\* FAILED, MANUAL_VERIFY_NEEDED or a failed check leaves the database, the
\* engine and the cart as they were.
C28_MpesaSaleAfterPayment ==
    [][/\ \A t \in tills :
             (pc[t] \in Finished /\ pc'[t] \notin Finished /\ pm'[t] = "MPESA")
                => pos.checkoutId # 0 /\ pos'.status = "SUCCESS"
       /\ (/\ Len(db'.sales) > Len(db.sales)
           /\ db'.sales[Len(db'.sales)].paymentMethod = "MPESA")
                => pos.checkoutId # 0 /\ pos.status = "SUCCESS"
       /\ pos'.status \in NotPaid
                => /\ db' = db /\ pc' = pc /\ work' = work
                   /\ pos'.cart = pos.cart
                   /\ pos'.checkoutId = pos.checkoutId]_vars

\* C28 witness: after a push and a status check that returned SUCCESS the
\* MPESA sale of the cart is committed
C28_Witness ==
    /\ pos.phase = "mpesa" /\ pos.status = "SUCCESS" /\ pos.checkoutId # 0
    /\ pc["till1"] = "done"
    /\ Len(db.sales) = 1
    /\ db.sales[1].paymentMethod = "MPESA"

\* the result codes checkStatus gives a meaning to
KnownCodes ==
    {Code("string", "0"), Code("number", "0"), Code("string", "1032"),
     Code("string", "1"), Code("string", "1001"), Code("string", "10")}

\* C29: the status of a query is SUCCESS only for an HTTP-OK answer with
\* result code 0; a token failure, a network error, an unreadable body, a
\* non-OK answer or an unrecognised result code gives MANUAL_VERIFY_NEEDED;
\* no query ends in a thrown error.
C29_AmbiguousNeverSuccess ==
    pos.response # NoResponse =>
        LET r == pos.response
        IN /\ pos.status # "THROWN"
           /\ pos.status = "SUCCESS"
                => /\ r.token /\ r.network /\ r.json /\ r.httpOk
                   /\ r.code \in {Code("string", "0"), Code("number", "0")}
           /\ (\/ ~r.token \/ ~r.network \/ ~r.json \/ ~r.httpOk
               \/ r.code \notin KnownCodes)
                => pos.status = "MANUAL_VERIFY_NEEDED"

\* C29 witness: a status query with a held checkout met a network error and
\* the screen got MANUAL_VERIFY_NEEDED
C29_Witness ==
    /\ pos.checkoutId # 0
    /\ pos.response # NoResponse
    /\ pos.response.token /\ ~pos.response.network
    /\ pos.status = "MANUAL_VERIFY_NEEDED"

\* C30: when the sale of a confirmed M-Pesa payment is committed, its total
\* is the amount sent in the STK push of the held checkoutRequestId.
C30_ChargedMatchesSale ==
    \A t \in tills :
        (pos.phase = "mpesa" /\ pc[t] = "done" /\ Len(db.sales) >= 1)
            => db.sales[Len(db.sales)].total = pos.pushed

====
